---- MODULE Spec2Model ----
(***************************************************************************)
(* Pinned-models tree utilities (src/lib/utils/pinned-models.ts), the PDF  *)
(* text-extraction worker and the pinned-models sidebar component.         *)
(*                                                                         *)
(* JavaScript arrays and objects are modelled on a heap (a sequence of     *)
(* cells, address = index) so that identity, sharing and in-place          *)
(* mutation are visible.  Extracted text is a sequence of characters.      *)
(***************************************************************************)
EXTENDS Integers, Sequences, FiniteSets, TLC

VARIABLES
    \* ---- tree utilities: one call of one utility on one input
    heap,       \* Seq of cells: arrays and category objects
    heap0,      \* the heap as it was when the utility was called
    items,      \* the `items` argument: address of an array, or Undefined
    modelId,    \* the `modelId` argument
    ret,        \* what the call produced: [threw, addr, ids]
    pc,         \* "ready" | "getIds" | "remove" | "add"
    \* ---- worker
    doc,        \* request -> the document behind the request's arrayBuffer
    wpc,        \* request -> position of its onmessage invocation
    pageNum,    \* request -> loop variable pageNum
    text,       \* request -> local variable text
    failed,     \* request -> an awaited promise of this invocation rejected
    extracted,  \* request -> number of getTextContent() promises resolved
    fetched,    \* request -> number of getPage() promises resolved
    outbox,     \* messages posted by self.postMessage, in order, tagged by request
    \* ---- sidebar component
    settings,   \* value of the $settings store: [pinnedModels |-> tree]
    models,     \* ids present in the $models registry
    sortable,   \* a Sortable was created on mount
    calls,      \* every updateUserSettings call made so far, in order
    pending,    \* number of updateUserSettings promises not yet settled
    unpinned,   \* ids for which unpinModel has started
    lastDrag    \* the last onUpdate event: [happened, before, oldIndex, newIndex]

treeVars == <<heap, heap0, items, modelId, ret, pc>>
workerVars == <<doc, wpc, pageNum, text, failed, extracted, fetched, outbox>>
sidebarVars == <<settings, models, sortable, calls, pending, unpinned, lastDrag>>
vars == <<treeVars, workerVars, sidebarVars>>

(***************************************************************************)
(* Bounds                                                                  *)
(***************************************************************************)
MaxNodes == 4
MaxPages == 2
MaxPinned == 4
MaxCalls == 2

Ids == {"a", "b"}
Names == {"G", "H"}

(***************************************************************************)
(* PinnedItem values                                                       *)
(***************************************************************************)
Leaf(id) == [kind |-> "str", id |-> id]
Nullish == [kind |-> "null"]
Category(name, children) == [kind |-> "cat", name |-> name, children |-> children]
CategoryNoChildren(name) == [kind |-> "cat", name |-> name]

HasChildren(item) == "children" \in DOMAIN item

RECURSIVE ItemsOfSize(_, _), ForestsOfSize(_, _)
\* items made of exactly n nodes; malformed items only when `malformed`
ItemsOfSize(n, malformed) ==
    IF n = 1
    THEN {Leaf(id) : id \in Ids}
         \cup {Category(nm, <<>>) : nm \in Names}
         \cup (IF malformed
               THEN {Nullish} \cup {CategoryNoChildren(nm) : nm \in Names}
               ELSE {})
    ELSE {Category(nm, f) : nm \in Names, f \in ForestsOfSize(n - 1, malformed)}

\* item sequences made of exactly n nodes
ForestsOfSize(n, malformed) ==
    IF n = 0
    THEN {<<>>}
    ELSE UNION {{<<i>> \o f : i \in ItemsOfSize(k, malformed),
                              f \in ForestsOfSize(n - k, malformed)} : k \in 1..n}

Forests(max, malformed) == UNION {ForestsOfSize(n, malformed) : n \in 0..max}

RECURSIVE WellFormed(_)
\* the value has the declared type PinnedItem[]
WellFormed(tree) ==
    \A i \in 1..Len(tree) :
        \/ tree[i].kind = "str"
        \/ /\ tree[i].kind = "cat"
           /\ HasChildren(tree[i])
           /\ WellFormed(tree[i].children)

RECURSIVE LeafIds(_)
\* the set of ids that occur as a leaf at any depth
LeafIds(tree) ==
    UNION {IF tree[i].kind = "str" THEN {tree[i].id}
           ELSE IF tree[i].kind = "cat" /\ HasChildren(tree[i])
                THEN LeafIds(tree[i].children)
                ELSE {} : i \in 1..Len(tree)}

RECURSIVE NoEmptyCategory(_)
NoEmptyCategory(tree) ==
    \A i \in 1..Len(tree) :
        tree[i].kind = "cat" =>
            /\ HasChildren(tree[i])
            /\ Len(tree[i].children) > 0
            /\ NoEmptyCategory(tree[i].children)

(***************************************************************************)
(* Heap                                                                    *)
(***************************************************************************)
Undefined == 0

ArrayCell(elems) == [kind |-> "array", elems |-> elems]
ObjectCell(name, children) == [kind |-> "object", name |-> name, children |-> children]
Ref(addr) == [kind |-> "ref", addr |-> addr]

\* allocate a cell; its address is the new length of the heap
New(h, cell) == Append(h, cell)

\* array.push(value)
Push(h, array, value) ==
    [h EXCEPT ![array] = ArrayCell(Append(h[array].elems, value))]

RECURSIVE AllocItems(_, _, _)
AllocArray(h, tree) ==
    LET r == AllocItems(h, tree, <<>>)
    IN  [heap |-> New(r.heap, ArrayCell(r.elems)), addr |-> Len(r.heap) + 1]

\* build the cells of a PinnedItem[] value, children before parents
AllocItems(h, tree, acc) ==
    IF tree = <<>>
    THEN [heap |-> h, elems |-> acc]
    ELSE LET item == Head(tree)
         IN  IF item.kind # "cat"
             THEN AllocItems(h, Tail(tree), Append(acc, item))
             ELSE IF ~HasChildren(item)
             THEN LET h1 == New(h, ObjectCell(item.name, Undefined))
                  IN  AllocItems(h1, Tail(tree), Append(acc, Ref(Len(h1))))
             ELSE LET c == AllocArray(h, item.children)
                      h1 == New(c.heap, ObjectCell(item.name, c.addr))
                  IN  AllocItems(h1, Tail(tree), Append(acc, Ref(Len(h1))))

RECURSIVE Val(_, _)
\* the PinnedItem[] value held by the array at `array`
Val(h, array) ==
    [i \in 1..Len(h[array].elems) |->
        LET e == h[array].elems[i]
        IN  IF e.kind # "ref" THEN e
            ELSE IF h[e.addr].children = Undefined
                 THEN CategoryNoChildren(h[e.addr].name)
                 ELSE Category(h[e.addr].name, Val(h, h[e.addr].children))]

ArgVal(h, array) == IF array = Undefined THEN <<>> ELSE Val(h, array)

RECURSIVE Reachable(_, _)
\* addresses of the arrays and objects reachable from the array at `array`
Reachable(h, array) ==
    {array} \cup
    UNION {IF h[array].elems[i].kind # "ref" THEN {}
           ELSE LET o == h[array].elems[i].addr
                IN  {o} \cup (IF h[o].children = Undefined THEN {}
                              ELSE Reachable(h, h[o].children))
           : i \in 1..Len(h[array].elems)}

(***************************************************************************)
(* getPinnedModelIds                                                       *)
(***************************************************************************)
RECURSIVE getPinnedModelIds(_, _), GetIdsLoop(_, _, _, _)
\* for (const item of items) { ... }, from position i, with `ids` so far
GetIdsLoop(h, array, i, ids) ==
    IF i > Len(h[array].elems)
    THEN ids
    ELSE LET item == h[array].elems[i]
         IN  IF item.kind = "str"
             THEN GetIdsLoop(h, array, i + 1, Append(ids, item.id))
             ELSE IF item.kind = "ref" /\ h[item.addr].children # Undefined
             THEN GetIdsLoop(h, array, i + 1,
                             ids \o getPinnedModelIds(h, h[item.addr].children))
             ELSE GetIdsLoop(h, array, i + 1, ids)

\* items = [] when the argument is undefined
getPinnedModelIds(h, itemsArg) ==
    IF itemsArg = Undefined THEN <<>> ELSE GetIdsLoop(h, itemsArg, 1, <<>>)

(***************************************************************************)
(* removeModelFromTree                                                     *)
(***************************************************************************)
\* item !== modelId
KeepLeafInverted(item, id) == item.id = id
KeepLeaf(item, id) == item.id # id

\* children.length > 0
KeepCategoryAlways(h, children) == Len(h[children].elems) >= 0
KeepCategory(h, children) == Len(h[children].elems) > 0

\* result.push({ ...item, children }): a new object, pushed onto result
PushSpreadInPlace(h, result, item, children) ==
    Push([h EXCEPT ![item.addr] = ObjectCell(h[item.addr].name, children)],
         result, item)
PushSpread(h, result, item, children) ==
    LET h1 == New(h, ObjectCell(h[item.addr].name, children))
    IN  Push(h1, result, Ref(Len(h1)))

RECURSIVE removeModelFromTree(_, _, _), RemoveLoop(_, _, _, _, _)
\* for (const item of items) { ... }, from position i
RemoveLoop(h, array, i, id, result) ==
    IF i > Len(h[array].elems)
    THEN [heap |-> h, threw |-> FALSE, addr |-> result]
    ELSE LET item == h[array].elems[i]
         IN  IF item.kind = "str"
             THEN IF KeepLeaf(item, id)
                  THEN RemoveLoop(Push(h, result, item), array, i + 1, id, result)
                  ELSE RemoveLoop(h, array, i + 1, id, result)
             ELSE IF item.kind = "null"
             \* item.children on null or undefined: TypeError
             THEN [heap |-> h, threw |-> TRUE, addr |-> Undefined]
             ELSE LET r == removeModelFromTree(h, h[item.addr].children, id)
                  IN  IF r.threw
                      THEN r
                      ELSE IF KeepCategory(r.heap, r.addr)
                      THEN RemoveLoop(PushSpread(r.heap, result, item, r.addr),
                                      array, i + 1, id, result)
                      ELSE RemoveLoop(r.heap, array, i + 1, id, result)

\* an undefined argument (and item.children ?? []) is a fresh empty array
removeModelFromTree(h, itemsArg, id) ==
    LET h1 == IF itemsArg = Undefined THEN New(h, ArrayCell(<<>>)) ELSE h
        array == IF itemsArg = Undefined THEN Len(h1) ELSE itemsArg
        h2 == New(h1, ArrayCell(<<>>))
    IN  RemoveLoop(h2, array, 1, id, Len(h2))

(***************************************************************************)
(* addModelToTree                                                          *)
(***************************************************************************)
addModelToTreeDedup(h, itemsArg, id) ==
    LET elems == IF itemsArg = Undefined THEN <<>> ELSE h[itemsArg].elems
        has == \E i \in 1..Len(elems) : elems[i] = Leaf(id)
        h1 == New(h, ArrayCell(IF has THEN elems ELSE Append(elems, Leaf(id))))
    IN  [heap |-> h1, threw |-> FALSE, addr |-> Len(h1)]
\* [...items, modelId]
addModelToTree(h, itemsArg, id) ==
    LET elems == IF itemsArg = Undefined THEN <<>> ELSE h[itemsArg].elems
        h1 == New(h, ArrayCell(Append(elems, Leaf(id))))
    IN  [heap |-> h1, threw |-> FALSE, addr |-> Len(h1)]

(***************************************************************************)
(* Tree utilities: one call on one input                                   *)
(***************************************************************************)
NoRet == [threw |-> FALSE, addr |-> Undefined, ids |-> <<>>]

WorkerIdle ==
    /\ doc = <<>> /\ wpc = <<>> /\ pageNum = <<>> /\ text = <<>>
    /\ failed = <<>> /\ extracted = <<>> /\ fetched = <<>> /\ outbox = <<>>

SidebarIdle ==
    /\ settings = [pinnedModels |-> <<>>] /\ models = {} /\ sortable = FALSE
    /\ calls = <<>> /\ pending = 0 /\ unpinned = {}
    /\ lastDrag = [happened |-> FALSE]

TreeIdle ==
    /\ heap = <<>> /\ heap0 = <<>> /\ items = Undefined /\ modelId = "a"
    /\ ret = NoRet /\ pc = "idle"

TreeInit ==
    /\ \E tree \in Forests(MaxNodes, TRUE), absent \in BOOLEAN :
          /\ absent => tree = <<>>
          /\ LET a == AllocArray(<<>>, tree)
             IN  /\ heap = (IF absent THEN <<>> ELSE a.heap)
                 /\ items = (IF absent THEN Undefined ELSE a.addr)
    /\ heap0 = heap
    /\ modelId \in Ids
    /\ ret = NoRet
    /\ pc = "ready"
    /\ WorkerIdle /\ SidebarIdle

CallGetPinnedModelIds ==
    /\ pc = "ready"
    /\ pc' = "getIds"
    /\ ret' = [threw |-> FALSE, addr |-> Undefined,
               ids |-> getPinnedModelIds(heap, items)]
    /\ UNCHANGED <<heap, heap0, items, modelId, workerVars, sidebarVars>>

CallRemoveModelFromTree ==
    /\ pc = "ready"
    /\ pc' = "remove"
    /\ LET r == removeModelFromTree(heap, items, modelId)
       IN  /\ heap' = r.heap
           /\ ret' = [threw |-> r.threw, addr |-> r.addr, ids |-> <<>>]
    /\ UNCHANGED <<heap0, items, modelId, workerVars, sidebarVars>>

CallAddModelToTree ==
    /\ pc = "ready"
    /\ pc' = "add"
    /\ LET r == addModelToTree(heap, items, modelId)
       IN  /\ heap' = r.heap
           /\ ret' = [threw |-> r.threw, addr |-> r.addr, ids |-> <<>>]
    /\ UNCHANGED <<heap0, items, modelId, workerVars, sidebarVars>>

TreeNext ==
    \/ CallGetPinnedModelIds
    \/ CallRemoveModelFromTree
    \/ CallAddModelToTree

TreeSpec == TreeInit /\ [][TreeNext]_vars

\* the input and the output of the call, as values
Input == ArgVal(heap0, items)
Output == Val(heap, ret.addr)

Without(ids, id) == SelectSeq(ids, LAMBDA x : x # id)

C2_NoEmptyCategoryInResult ==
    (pc = "remove" /\ ~ret.threw) => NoEmptyCategory(Output)

\* a category nested in a category, whose only leaf is X, is pruned with its parent
C2_Witness ==
    /\ pc = "remove" /\ ~ret.threw
    /\ \E nm \in Names, id \in Ids :
          /\ id # modelId
          /\ Input = <<Leaf(id), Category(nm, <<Category(nm, <<Leaf(modelId)>>)>>)>>
          /\ Output = <<Leaf(id)>>

\* C3: when X is no leaf of the well-typed tree T, removeModelFromTree(T, X)
\* has the same leaves and categories as T, in the same order.
C3_AbsentIdLeavesTreeEquivalent ==
    (pc = "remove" /\ WellFormed(Input) /\ modelId \notin LeafIds(Input)) =>
        /\ ~ret.threw
        /\ Output = Input

\* C6: no utility raises an error, whatever the items (absent sequence, null
\* or undefined items, category objects without a children field).
C6_NoUtilityThrows ==
    pc \in {"getIds", "remove", "add"} => ~ret.threw

\* C7: addModelToTree(T, X) is T with the leaf X appended at top level, also
\* when X already occurs in T; the flattened ids are those of T followed by X.
C7_AddAppendsLeaf ==
    pc = "add" =>
        /\ ~ret.threw
        /\ Output = Append(Input, Leaf(modelId))
        /\ Len(Output) = Len(Input) + 1
        /\ getPinnedModelIds(heap, ret.addr)
              = Append(getPinnedModelIds(heap0, items), modelId)

\* X was already a top-level leaf next to a category: a duplicate leaf is created
C7_Witness ==
    /\ pc = "add" /\ ~ret.threw
    /\ \E i \in 1..Len(Input) : Input[i] = Leaf(modelId)
    /\ \E i \in 1..Len(Input) : Input[i].kind = "cat"
    /\ Cardinality({i \in 1..Len(Output) : Output[i] = Leaf(modelId)}) = 2

\* C8: removeModelFromTree and addModelToTree change no array and no object of
\* their input; the returned array is new, and so is every array and category
\* object of removeModelFromTree's result.
C8_InputNotMutated ==
    pc \in {"remove", "add"} =>
        /\ Len(heap) >= Len(heap0)
        /\ \A a \in 1..Len(heap0) : heap[a] = heap0[a]
        /\ ~ret.threw =>
              /\ ret.addr > Len(heap0)
              /\ pc = "remove" =>
                    \A a \in Reachable(heap, ret.addr) : a > Len(heap0)

\* a category lost one child and kept another, so it was rebuilt
C8_Witness ==
    /\ pc = "remove" /\ ~ret.threw
    /\ \E i \in 1..Len(Input), j \in 1..Len(Output) :
          /\ Input[i].kind = "cat" /\ HasChildren(Input[i])
          /\ modelId \in LeafIds(Input[i].children)
          /\ Output[j].kind = "cat"
          /\ Len(Output[j].children) < Len(Input[i].children)

(***************************************************************************)
(* PDF text-extraction worker                                              *)
(***************************************************************************)
Requests == {"r1", "r2"}

\* item.str values of one page's content.items
PageContents == { << <<"h", "i">> >>, << <<"a">>, <<"b", "c">> >>, <<>> }

\* a document: its pages, numPages = Len
Docs == UNION {[1..n -> PageContents] : n \in 1..MaxPages}

\* what a rejected promise carries
Errors == {[message |-> "Invalid PDF structure"], [message |-> ""]}

RECURSIVE Join(_, _)
\* strings.join(sep)
Join(strings, sep) ==
    IF strings = <<>> THEN <<>>
    ELSE IF Len(strings) = 1 THEN strings[1]
    ELSE strings[1] \o sep \o Join(Tail(strings), sep)

\* text += strings.join(' ') + '\n'
PageText(strings) == Join(strings, <<" ">>) \o <<"\n">>

\* { type: 'progress', page: pageNum, total: pdf.numPages }
ProgressMessageZeroBased(r, n, total) ==
    [req |-> r, type |-> "progress", page |-> n - 1, total |-> total]
ProgressMessage(r, n, total) ==
    [req |-> r, type |-> "progress", page |-> n, total |-> total]

\* { type: 'done', text }
DoneMessage(r, t) == [req |-> r, type |-> "done", text |-> t]

\* error.message || String(error)
ErrorMessage(r, e) ==
    [req |-> r, type |-> "error",
     error |-> IF e.message # "" THEN e.message ELSE "Error"]

\* what the catch block posts
CatchPostsThenDone(r, e, t) == <<ErrorMessage(r, e), DoneMessage(r, t)>>
CatchPosts(r, e, t) == <<ErrorMessage(r, e)>>

WorkerInit ==
    /\ doc = [r \in Requests |-> <<>>]
    /\ wpc = [r \in Requests |-> "idle"]
    /\ pageNum = [r \in Requests |-> 0]
    /\ text = [r \in Requests |-> <<>>]
    /\ failed = [r \in Requests |-> FALSE]
    /\ extracted = [r \in Requests |-> 0]
    /\ fetched = [r \in Requests |-> 0]
    /\ outbox = <<>>
    /\ TreeIdle /\ SidebarIdle

\* self.onmessage runs up to its first await
OnMessage(r) ==
    /\ wpc[r] = "idle"
    /\ \E d \in Docs : doc' = [doc EXCEPT ![r] = d]
    /\ wpc' = [wpc EXCEPT ![r] = "getDocument"]
    /\ UNCHANGED <<pageNum, text, failed, extracted, fetched, outbox,
                   treeVars, sidebarVars>>

\* the loop test, with pageNum = n and text = t: the next await, or done
LoopTest(r, n, t, posted) ==
    IF n <= Len(doc[r])
    THEN /\ wpc' = [wpc EXCEPT ![r] = "getPage"]
         /\ outbox' = outbox \o posted
    ELSE /\ wpc' = [wpc EXCEPT ![r] = "finished"]
         /\ outbox' = outbox \o posted \o <<DoneMessage(r, t)>>

\* getDocument(...).promise resolves
GetDocumentResolved(r) ==
    /\ wpc[r] = "getDocument"
    /\ text' = [text EXCEPT ![r] = <<>>]
    /\ pageNum' = [pageNum EXCEPT ![r] = 1]
    /\ LoopTest(r, 1, <<>>, <<>>)
    /\ UNCHANGED <<doc, failed, extracted, fetched, treeVars, sidebarVars>>

\* pdf.getPage(pageNum) resolves
GetPageResolved(r) ==
    /\ wpc[r] = "getPage"
    /\ wpc' = [wpc EXCEPT ![r] = "getTextContent"]
    /\ fetched' = [fetched EXCEPT ![r] = @ + 1]
    /\ UNCHANGED <<doc, pageNum, text, failed, extracted, outbox,
                   treeVars, sidebarVars>>

\* page.getTextContent() resolves: lines 14-16, pageNum++, the loop test
GetTextContentResolved(r) ==
    /\ wpc[r] = "getTextContent"
    /\ LET strings == doc[r][pageNum[r]]
           t == text[r] \o PageText(strings)
       IN  /\ text' = [text EXCEPT ![r] = t]
           /\ pageNum' = [pageNum EXCEPT ![r] = @ + 1]
           /\ LoopTest(r, pageNum[r] + 1, t,
                       <<ProgressMessage(r, pageNum[r], Len(doc[r]))>>)
    /\ extracted' = [extracted EXCEPT ![r] = @ + 1]
    /\ UNCHANGED <<doc, failed, fetched, treeVars, sidebarVars>>

\* an awaited promise rejects: the catch block
AwaitRejected(r) ==
    /\ wpc[r] \in {"getDocument", "getPage", "getTextContent"}
    /\ \E e \in Errors : outbox' = outbox \o CatchPosts(r, e, text[r])
    /\ wpc' = [wpc EXCEPT ![r] = "finished"]
    /\ failed' = [failed EXCEPT ![r] = TRUE]
    /\ UNCHANGED <<doc, pageNum, text, extracted, fetched, treeVars, sidebarVars>>

WorkerNext ==
    \E r \in Requests :
        \/ OnMessage(r)
        \/ GetDocumentResolved(r)
        \/ GetPageResolved(r)
        \/ GetTextContentResolved(r)
        \/ AwaitRejected(r)

WorkerSpec == WorkerInit /\ [][WorkerNext]_vars

\* the messages posted for request r, in order
MessagesOf(r) == SelectSeq(outbox, LAMBDA m : m.req = r)
Terminal(m) == m.type \in {"done", "error"}

RECURSIVE ExpectedText(_)
\* per page, in order: the fragments joined by single spaces, then a newline
ExpectedText(pages) ==
    IF pages = <<>> THEN <<>>
    ELSE Join(Head(pages), <<" ">>) \o <<"\n">> \o ExpectedText(Tail(pages))

\* C4: a request's messages are progress messages followed, once the handler
\* has ended, by exactly one terminal message (done or error) and nothing
\* after it; after a failure the terminal message is the error and no done
\* message, hence no text, is posted.
C4_OneTerminalMessage ==
    \A r \in Requests :
        LET ms == MessagesOf(r)
            terminals == {i \in 1..Len(ms) : Terminal(ms[i])}
        IN  /\ Cardinality(terminals) = (IF wpc[r] = "finished" THEN 1 ELSE 0)
            /\ terminals \subseteq {Len(ms)}
            /\ \A i \in 1..Len(ms) : ms[i].type \in {"progress", "done", "error"}
            /\ failed[r] =>
                  /\ wpc[r] = "finished"
                  /\ ms[Len(ms)].type = "error"
                  /\ \A i \in 1..Len(ms) : ms[i].type # "done"

\* a request failed after a page was extracted, while the other request succeeded
C4_Witness ==
    \E r, q \in Requests :
        /\ failed[r] /\ extracted[r] > 0
        /\ wpc[q] = "finished" /\ ~failed[q]
        /\ Len(MessagesOf(q)) > 1

\* C5: while extraction succeeds, the progress messages of a request are
\* page = 1, 2, ..., k with total = N, where k pages have been extracted and at
\* most k + 1 fetched; on success they are N, followed by one done message
\* whose text is each page's fragments joined by spaces plus a newline.
C5_ProgressThenDone ==
    \A r \in Requests :
        ~failed[r] =>
            LET ms == MessagesOf(r)
                n == Len(doc[r])
                k == extracted[r]
            IN  /\ Len(ms) = k + (IF wpc[r] = "finished" THEN 1 ELSE 0)
                /\ \A i \in 1..k :
                      ms[i] = [req |-> r, type |-> "progress", page |-> i, total |-> n]
                /\ k <= fetched[r] /\ fetched[r] <= k + 1
                /\ wpc[r] = "finished" =>
                      /\ k = n
                      /\ ms[n + 1] = [req |-> r, type |-> "done",
                                      text |-> ExpectedText(doc[r])]

\* a document of MaxPages pages, one of them with two fragments, was extracted
C5_Witness ==
    \E r \in Requests :
        /\ wpc[r] = "finished" /\ ~failed[r]
        /\ Len(doc[r]) = MaxPages
        /\ \E p \in 1..Len(doc[r]) : Len(doc[r][p]) = 2
        /\ Len(MessagesOf(r)) = MaxPages + 1

(***************************************************************************)
(* Pinned-models sidebar component                                         *)
(***************************************************************************)
\* removeModelFromTree on a value: build it, call, read the result back
RemoveFromValue(tree, id) ==
    LET a == AllocArray(<<>>, tree)
        r == removeModelFromTree(a.heap, a.addr, id)
    IN  Val(r.heap, r.addr)

\* the each block of #pinned-models-list: one element per category and per
\* leaf whose id is found in $models; nothing for the other leaves
IsRendered(item, registry) == item.kind = "cat" \/ item.id \in registry
Rendered(tree, registry) == SelectSeq(tree, LAMBDA item : IsRendered(item, registry))

\* the each blocks are keyed: (typeof item === 'string' ? item : item.name)
Key(item) == IF item.kind = "str" THEN item.id ELSE item.name

RECURSIVE UniqueKeys(_)
\* no two siblings share a key, at any depth
UniqueKeys(tree) ==
    /\ \A i, j \in 1..Len(tree) : Key(tree[i]) = Key(tree[j]) => i = j
    /\ \A i \in 1..Len(tree) : tree[i].kind = "cat" => UniqueKeys(tree[i].children)

\* the leaves that show an unpin control, at any depth
Unpinnable(tree, registry) == LeafIds(tree) \cap registry

\* array.splice(index, 1), 0-based: the array without that element
SpliceOut(array, index) ==
    SubSeq(array, 1, index) \o SubSeq(array, index + 2, Len(array))

\* array.splice(index, 0, value), 0-based
SpliceIn(array, index, value) ==
    SubSeq(array, 1, index) \o <<value>> \o SubSeq(array, index + 1, Len(array))

\* lines 27-28: moved = pinned.splice(oldIndex, 1)[0]; pinned.splice(newIndex, 0, moved)
Move(array, oldIndex, newIndex) ==
    SpliceIn(SpliceOut(array, oldIndex), newIndex, array[oldIndex + 1])

\* { ui: $settings }, read after settings.set(...)
StalePayload(before, after) == [ui |-> before]
Payload(before, after) == [ui |-> after]

SidebarInit ==
    /\ \E tree \in Forests(MaxPinned, FALSE) :
          /\ UniqueKeys(tree)
          /\ settings = [pinnedModels |-> tree]
    /\ models \in SUBSET Ids
    /\ sortable \in BOOLEAN
    /\ calls = <<>>
    /\ pending = 0
    /\ unpinned = {}
    /\ lastDrag = [happened |-> FALSE]
    /\ TreeIdle /\ WorkerIdle

\* unpinModel(id) up to its await, started from a rendered unpin control
UnpinModel ==
    /\ Len(calls) < MaxCalls
    /\ \E id \in Unpinnable(settings.pinnedModels, models) :
          LET tree == RemoveFromValue(settings.pinnedModels, id)
              after == [settings EXCEPT !.pinnedModels = tree]
          IN  /\ settings' = after
              /\ calls' = Append(calls, Payload(settings, after))
              /\ unpinned' = unpinned \cup {id}
    /\ pending' = pending + 1
    /\ lastDrag' = [happened |-> FALSE]
    /\ UNCHANGED <<models, sortable, treeVars, workerVars>>

\* Sortable's onUpdate up to its await; the indices are positions among the
\* rendered elements of the list
OnUpdate ==
    /\ Len(calls) < MaxCalls
    /\ sortable
    /\ \E oldIndex, newIndex \in
            0..(Len(Rendered(settings.pinnedModels, models)) - 1) :
          /\ oldIndex # newIndex
          /\ LET pinned == Move(settings.pinnedModels, oldIndex, newIndex)
                 after == [settings EXCEPT !.pinnedModels = pinned]
             IN  /\ settings' = after
                 /\ calls' = Append(calls, Payload(settings, after))
          /\ lastDrag' = [happened |-> TRUE, before |-> settings.pinnedModels,
                          oldIndex |-> oldIndex, newIndex |-> newIndex]
    /\ pending' = pending + 1
    /\ UNCHANGED <<models, sortable, unpinned, treeVars, workerVars>>

\* an updateUserSettings promise settles and the handler that awaited it ends
Settle ==
    /\ pending > 0
    /\ pending' = pending - 1
    /\ UNCHANGED <<settings, models, sortable, calls, unpinned, lastDrag,
                   treeVars, workerVars>>

SidebarNext ==
    \/ UnpinModel
    \/ OnUpdate
    \/ Settle

SidebarSpec == SidebarInit /\ [][SidebarNext]_vars

\* C9: whatever the interleaving of unpinModel calls and onUpdate events, an
\* id whose unpinModel has started is no leaf of the store's tree, and the
\* payload of the latest updateUserSettings call is the store's value.
C9_NoUnpinLost ==
    /\ \A id \in unpinned : id \notin LeafIds(settings.pinnedModels)
    /\ calls # <<>> => calls[Len(calls)].ui = settings

\* an unpin from inside a category, then a drag, both calls still pending
C9_Witness ==
    /\ unpinned # {}
    /\ lastDrag.happened
    /\ pending = 2
    /\ calls[1].ui # calls[2].ui
    /\ \E i \in 1..Len(settings.pinnedModels) : settings.pinnedModels[i].kind = "cat"

IsPermutation(s, t) ==
    /\ Len(s) = Len(t)
    /\ \E f \in [1..Len(s) -> 1..Len(s)] :
          /\ \A i, j \in 1..Len(s) : f[i] = f[j] => i = j
          /\ \A i \in 1..Len(s) : t[i] = s[f[i]]

\* C10: an onUpdate event permutes the top-level sequence, puts the dragged
\* (rendered) item at position newIndex, and leaves the rendered order equal
\* to the order the drag produced, also when some leaves are not rendered.
C10_DragReordersRenderedList ==
    lastDrag.happened =>
        LET before == lastDrag.before
            after == settings.pinnedModels
            shown == Rendered(before, models)
        IN  /\ IsPermutation(before, after)
            /\ after[lastDrag.newIndex + 1] = shown[lastDrag.oldIndex + 1]
            /\ Rendered(after, models)
                  = Move(shown, lastDrag.oldIndex, lastDrag.newIndex)

====
